---- MODULE Spec2Model ----
(***************************************************************************)
(* A model of llmtester's output-processing pipeline, process_outputs in   *)
(* src/llmtester/process_data.py: the signature checks of the two          *)
(* caller-supplied functions, the discovery of response files, the         *)
(* correlation of the four files of a record, and the two reductions.      *)
(***************************************************************************)
EXTENDS Integers, Sequences, FiniteSets, TLC

(***************************************************************************)
(* Bounds of the model.                                                    *)
(***************************************************************************)
\* Largest K of a store holding the complete records 1..K.
MaxK == 10
\* Identifiers 1..MaxId of the stores whose records are damaged in every way.
MaxId == 2

\* The most responses the generation driver is asked for on one directory.
MaxRequests == 2

(***************************************************************************)
(* Characters and file names.  A name is a sequence of one-character       *)
(* strings; Ord is the code point, which Python's string order compares.   *)
(***************************************************************************)
Digits == <<"0", "1", "2", "3", "4", "5", "6", "7", "8", "9">>

IsDigit(c) == \E i \in 1..10 : Digits[i] = c

DigitValue(c) == (CHOOSE i \in 1..10 : Digits[i] = c) - 1

Ord(c) ==
    CASE c = "." -> 46
      [] IsDigit(c) -> 48 + DigitValue(c)
      [] c = "_" -> 95
      [] c = "a" -> 97
      [] c = "e" -> 101
      [] c = "g" -> 103
      [] c = "h" -> 104
      [] c = "i" -> 105
      [] c = "j" -> 106
      [] c = "k" -> 107
      [] c = "m" -> 109
      [] c = "n" -> 110
      [] c = "o" -> 111
      [] c = "p" -> 112
      [] c = "r" -> 114
      [] c = "s" -> 115
      [] c = "t" -> 116
      [] c = "u" -> 117
      [] c = "w" -> 119
      [] c = "x" -> 120

\* Python's str < str: the first differing code point decides, a proper prefix is smaller.
RECURSIVE StrLess(_, _)
StrLess(a, b) ==
    IF b = <<>> THEN FALSE
    ELSE IF a = <<>> THEN TRUE
    ELSE IF Head(a) # Head(b) THEN Ord(Head(a)) < Ord(Head(b))
    ELSE StrLess(Tail(a), Tail(b))

\* int(digits): the decimal value of a run of digits (leading zeros vanish).
RECURSIVE ParseInt(_)
ParseInt(ds) ==
    IF ds = <<>> THEN 0
    ELSE 10 * ParseInt(SubSeq(ds, 1, Len(ds) - 1)) + DigitValue(ds[Len(ds)])

\* f"{n}": the decimal digits of a non-negative integer, no leading zero.
RECURSIVE FormatInt(_)
FormatInt(n) ==
    IF n < 10 THEN <<Digits[n + 1]>>
    ELSE FormatInt(n \div 10) \o <<Digits[(n % 10) + 1]>>

ResponsePrefix == <<"r", "e", "s", "p", "o", "n", "s", "e", "_">>
ThinkingPrefix == <<"t", "h", "i", "n", "k", "i", "n", "g", "_">>
RawPrefix == <<"r", "a", "w", "_", "o", "u", "t", "p", "u", "t", "_">>
MetaPrefix == <<"m", "e", "t", "a", "_">>
TxtSuffix == <<".", "t", "x", "t">>
JsonSuffix == <<".", "j", "s", "o", "n">>

\* The four file names the code formats from an identifier.
ResponseName(n) == ResponsePrefix \o FormatInt(n) \o TxtSuffix
ThinkingName(n) == ThinkingPrefix \o FormatInt(n) \o TxtSuffix
RawName(n) == RawPrefix \o FormatInt(n) \o TxtSuffix
MetaName(n) == MetaPrefix \o FormatInt(n) \o JsonSuffix

StartsWith(s, p) == Len(s) >= Len(p) /\ SubSeq(s, 1, Len(p)) = p

EndsWith(s, p) == Len(s) >= Len(p) /\ SubSeq(s, Len(s) - Len(p) + 1, Len(s)) = p

\* glob's pattern response_*.txt on a base name.
MatchesResponseGlob(name) ==
    /\ Len(name) >= Len(ResponsePrefix) + Len(TxtSuffix)
    /\ StartsWith(name, ResponsePrefix)
    /\ EndsWith(name, TxtSuffix)

\* The length of the longest run of digits of s that starts at position i.
RECURSIVE DigitRun(_, _)
DigitRun(s, i) ==
    IF i > Len(s) \/ ~IsDigit(s[i]) THEN 0 ELSE 1 + DigitRun(s, i + 1)

\* re.search(r'response_(\d+)\.txt', name) matches at position i: the prefix, then
\* one or more digits (all of the run: a digit is no "."), then ".txt".
MatchAt(name, i) ==
    LET d == i + Len(ResponsePrefix)
        r == DigitRun(name, d)
    IN  /\ StartsWith(SubSeq(name, i, Len(name)), ResponsePrefix)
        /\ r >= 1
        /\ StartsWith(SubSeq(name, d + r, Len(name)), TxtSuffix)

HasMatch(name) == \E i \in 1..Len(name) : MatchAt(name, i)

\* group(1) of the leftmost match.
MatchGroup(name) ==
    LET i == CHOOSE k \in 1..Len(name) :
                 MatchAt(name, k) /\ \A j \in 1..(k - 1) : ~MatchAt(name, j)
        d == i + Len(ResponsePrefix)
    IN  SubSeq(name, d, d + DigitRun(name, d) - 1)

\* int(re.search(...).group(1)); the code catches the AttributeError of no match.
ExtractResponseNum(name) == ParseInt(MatchGroup(name))

\* sorted(): the names of a set in ascending string order.
RECURSIVE SortedNames(_)
SortedNames(S) ==
    IF S = {} THEN <<>>
    ELSE LET m == CHOOSE x \in S : \A y \in S \ {x} : StrLess(x, y)
         IN  <<m>> \o SortedNames(S \ {m})

(***************************************************************************)
(* Annotations, as inspect and typing show them: cls is the object itself  *)
(* (what "is" compares), origin is get_origin and args is get_args.        *)
(***************************************************************************)
Annotation(cls, origin, args) == [cls |-> cls, origin |-> origin, args |-> args]

\* inspect._empty: no annotation.
Empty == Annotation("_empty", "None", <<>>)
StrT == Annotation("str", "None", <<>>)
IntT == Annotation("int", "None", <<>>)
AnyT == Annotation("Any", "None", <<>>)
\* The classes dict and list.
BareDict == Annotation("dict", "None", <<>>)
BareList == Annotation("list", "None", <<>>)
\* typing.Dict and typing.List without parameters.
TypingDict == Annotation("typing.Dict", "dict", <<>>)
TypingList == Annotation("typing.List", "list", <<>>)
DictStrAny == Annotation("Dict[str, Any]", "dict", <<StrT, AnyT>>)
DictStrInt == Annotation("Dict[str, int]", "dict", <<StrT, IntT>>)
ListStr == Annotation("List[str]", "list", <<StrT>>)
ListDictStrAny == Annotation("List[Dict[str, Any]]", "list", <<DictStrAny>>)
ListDictStrInt == Annotation("List[Dict[str, int]]", "list", <<DictStrInt>>)
ListBareDict == Annotation("List[dict]", "list", <<BareDict>>)

get_origin(ann) == ann.origin

get_args(ann) == ann.args

Param(name, ann) == [name |-> name, ann |-> ann]

\* The signature of a caller-supplied object, as inspect.signature reports it.
Function(callable, params, ret) == [callable |-> callable, params |-> params, ret |-> ret]

expected_test_params ==
    <<Param("metadata", DictStrAny), Param("raw_output", StrT),
      Param("thinking", StrT), Param("response", StrT)>>

TypeError(what, at) == [type |-> "TypeError", what |-> what, at |-> at]

ValueError(what) == [type |-> "ValueError", what |-> what, at |-> ""]

\* A callable's own exception, which process_outputs lets through.
CallableError == [type |-> "Exception", what |-> "raised by summary_function", at |-> ""]

NoError == [type |-> "None", what |-> "", at |-> ""]

\* "if get_origin(ann) is dict or ann is dict": the branch that compares with Dict[str, Any].
TakesDictBranch(ann) == get_origin(ann) = "dict" \/ ann = BareDict

\* "if origin is not dict or args != (str, Any)", with origin = get_origin(ann) or ann.
DictAnnotationBad(ann) ==
    LET origin == IF get_origin(ann) # "None" THEN get_origin(ann) ELSE ann.cls
    IN  origin # "dict" \/ get_args(ann) # <<StrT, AnyT>>

\* The body of the loop over the parameters of test_function: the error of one
\* parameter against the expected one, or NoError.
TestParamError(idx, p, exp) ==
    IF p.name # exp.name THEN TypeError("parameter name", exp.name)
    ELSE IF p.ann = Empty THEN TypeError("no annotation", p.name)
    ELSE IF TakesDictBranch(p.ann)
         THEN IF DictAnnotationBad(p.ann) THEN TypeError("annotation", p.name) ELSE NoError
         ELSE IF p.ann # exp.ann THEN TypeError("annotation", p.name) ELSE NoError

\* The check of a return annotation against Dict[str, Any] (both functions).
ReturnAnnotationError(ret) ==
    IF ret = Empty THEN TypeError("no return annotation", "return")
    ELSE IF TakesDictBranch(ret)
         THEN IF DictAnnotationBad(ret) THEN TypeError("return annotation", "return") ELSE NoError
         ELSE TypeError("return annotation", "return")

\* Section 1 of process_outputs: the first error of test_function, or NoError.
ValidateTestFunction(f) ==
    IF ~f.callable THEN TypeError("not callable", "test_function")
    ELSE IF Len(f.params) # 4 THEN TypeError("parameter count", "test_function")
    ELSE LET bad == {i \in 1..4 :
                        TestParamError(i, f.params[i], expected_test_params[i]) # NoError}
         IN  IF bad # {}
             THEN LET i == CHOOSE k \in bad : \A j \in bad : k <= j
                  IN  TestParamError(i, f.params[i], expected_test_params[i])
             ELSE ReturnAnnotationError(f.ret)

\* A check that looks at the list and not at what it is a list of.
ResultsAnnotationAnyList(ann) ==
    IF get_origin(ann) = "list" THEN NoError ELSE TypeError("annotation", "results")

\* The check of the annotation of the parameter results against List[Dict[str, Any]].
ResultsAnnotationError(ann) ==
    IF get_origin(ann) = "list"
    THEN IF Len(get_args(ann)) # 1 THEN TypeError("annotation", "results")
         ELSE LET inner == get_args(ann)[1]
              IN  IF get_origin(inner) = "dict"
                  THEN IF get_args(inner) # <<StrT, AnyT>>
                       THEN TypeError("annotation", "results") ELSE NoError
                  ELSE TypeError("annotation", "results")
    ELSE TypeError("annotation", "results")

\* Section 2 of process_outputs: the first error of summary_function, or NoError.
ValidateSummaryFunction(f) ==
    IF ~f.callable THEN TypeError("not callable", "summary_function")
    ELSE IF Len(f.params) # 1 THEN TypeError("parameter count", "summary_function")
    ELSE IF f.params[1].name # "results" THEN TypeError("parameter name", "results")
    ELSE IF f.params[1].ann = Empty THEN TypeError("no annotation", "results")
    ELSE IF ResultsAnnotationError(f.params[1].ann) # NoError
         THEN ResultsAnnotationError(f.params[1].ann)
    ELSE ReturnAnnotationError(f.ret)

(***************************************************************************)
(* Values: what the files hold and what the callables take and return.     *)
(***************************************************************************)
\* A value stored under a key of a mapping: an int, a str or a float (num/den).
IntCell(n) == [t |-> "int", num |-> n, den |-> 1, s |-> ""]
StrCell(s) == [t |-> "str", num |-> 0, den |-> 1, s |-> s]

RECURSIVE Gcd(_, _)
Gcd(a, b) == IF b = 0 THEN a ELSE Gcd(b, a % b)

\* The float a / b of two non-negative integers, b > 0, as a reduced fraction.
FloatCell(a, b) ==
    LET g == Gcd(a, b) IN [t |-> "float", num |-> a \div g, den |-> b \div g, s |-> ""]

\* A Python object: its type name, the type names of its keys (a dict), its items.
Value(type, keytypes, items) == [type |-> type, keytypes |-> keytypes, items |-> items]

DictValue(items) == Value("dict", {"str"}, items)

\* A file: whether its bytes decode as UTF-8, the text, and for a .json file what
\* the text parses to ("object", "array", or "invalid" when it is no JSON) and the
\* items of the object.
File(decodes, text, json, items) ==
    [decodes |-> decodes, text |-> text, json |-> json, items |-> items]

TextFile(text) == File(TRUE, text, "", <<>>)
UndecodableFile == File(FALSE, "", "", <<>>)
JsonObjectFile(items) == File(TRUE, "{}", "object", items)
JsonArrayFile == File(TRUE, "[]", "array", <<>>)
JsonInvalidFile == File(TRUE, "{", "invalid", <<>>)

\* A text of n characters.
RECURSIVE Text(_)
Text(n) == IF n = 0 THEN "" ELSE "a" \o Text(n - 1)

CR == "\r"
LF == "\n"

\* os.linesep of the platform the code runs on (POSIX).
LineSep == LF

\* What f.write(text) of a file opened with open(path, "w", encoding="utf-8") puts
\* in the file: newline=None, each "\n" is written as os.linesep.
RECURSIVE WriteNewlines(_)
WriteNewlines(s) ==
    IF Len(s) = 0 THEN ""
    ELSE (IF SubSeq(s, 1, 1) = LF THEN LineSep ELSE SubSeq(s, 1, 1))
         \o WriteNewlines(SubSeq(s, 2, Len(s)))

\* What f.read() of a file opened with open(path, "r", encoding="utf-8") gives for
\* the text of the file: newline=None, each "\r\n" and each "\r" is read as "\n".
RECURSIVE UniversalNewlines(_)
UniversalNewlines(s) ==
    IF Len(s) = 0 THEN ""
    ELSE IF SubSeq(s, 1, 1) = CR
    THEN LF \o UniversalNewlines(
                   SubSeq(s, IF Len(s) >= 2 /\ SubSeq(s, 2, 2) = LF THEN 3 ELSE 2, Len(s)))
    ELSE SubSeq(s, 1, 1) \o UniversalNewlines(SubSeq(s, 2, Len(s)))

(***************************************************************************)
(* The example callables of src/examples/test_analysis.py, and the ways a  *)
(* callable with a valid signature can still misbehave when it is called.  *)
(***************************************************************************)
\* test_function: {"response_num": metadata["response_num"], "response_length": len(response)}.
TestValue(metadata, raw_output, thinking, response) ==
    DictValue(("response_num" :> metadata["response_num"])
              @@ ("response_length" :> IntCell(Len(response))))

RECURSIVE SumLengths(_)
SumLengths(rs) ==
    IF rs = <<>> THEN 0 ELSE rs[1].items["response_length"].num + SumLengths(Tail(rs))

\* The total of the lengths, not divided by the count.
SummaryValueTotal(rs) ==
    DictValue("avg_response_length" :> IntCell(SumLengths(rs)))

\* summary_function: {"avg_response_length": total / count if count else 0}.
SummaryValue(rs) ==
    DictValue("avg_response_length" :>
                  (IF Len(rs) # 0 THEN FloatCell(SumLengths(rs), Len(rs)) ELSE IntCell(0)))

Outcomes == {"ok", "raise", "nondict", "badkey"}

\* What a call returns for an outcome other than "raise".
Returned(outcome, value) ==
    CASE outcome = "ok" -> value
      [] outcome = "nondict" -> Value("list", {}, <<>>)
      [] outcome = "badkey" -> Value("dict", {"str", "int"}, value.items)

\* isinstance(v, dict).
IsDict(v) == v.type = "dict"

\* No key fails isinstance(key, str).
AllKeysStr(v) == \A t \in v.keytypes : t = "str"

\* A check of the type alone, without the loop over the keys.
ValidReturnDictOnly(v) == IsDict(v)

\* The checks of a returned value, sections 5.a and 6: a dict whose keys are all str.
ValidReturn(v) == IsDict(v) /\ AllKeysStr(v)

\* The error the checks of a returned value raise.
ReturnError(who, v) ==
    IF ~IsDict(v) THEN TypeError(who \o " returned " \o v.type, "expected Dict[str, Any]")
    ELSE TypeError(who \o " returned a dict with a non-string key", "")

Sentinel == DictValue("error" :> StrCell("No results were generated"))

(***************************************************************************)
(* The inputs of a run: the two callables and the store.                   *)
(***************************************************************************)
\* The example callables' signatures: the shape process_outputs documents.
ValidTestFunction == Function(TRUE, expected_test_params, DictStrAny)

ValidSummaryFunction == Function(TRUE, <<Param("results", ListDictStrAny)>>, DictStrAny)

ParamNames == {"metadata", "raw_output", "thinking", "response", "meta"}

ParamAnnotations ==
    {Empty, StrT, IntT, BareDict, TypingDict, DictStrAny, DictStrInt, BareList, ListDictStrAny}

ReturnAnnotations ==
    {Empty, StrT, BareDict, TypingDict, DictStrAny, DictStrInt, ListDictStrAny}

ResultsAnnotations ==
    {Empty, StrT, BareList, TypingList, ListStr, ListDictStrAny, ListDictStrInt,
     ListBareDict, DictStrAny}

\* Candidate analysis functions: the valid one, an object that is no callable, one
\* parameter replaced by any name and annotation, a parameter dropped or added, two
\* parameters swapped, any return annotation.
TestFunctions ==
    {ValidTestFunction, Function(FALSE, <<>>, Empty)}
    \cup {[ValidTestFunction EXCEPT !.params[i] = Param(n, a)] :
             i \in 1..4, n \in ParamNames, a \in ParamAnnotations}
    \cup {Function(TRUE, SubSeq(expected_test_params, 1, 3), DictStrAny),
          Function(TRUE, expected_test_params \o <<Param("extra", StrT)>>, DictStrAny),
          Function(TRUE, <<expected_test_params[2], expected_test_params[1],
                           expected_test_params[3], expected_test_params[4]>>, DictStrAny)}
    \cup {[ValidTestFunction EXCEPT !.ret = a] : a \in ReturnAnnotations}

\* Candidate summary functions, likewise.
SummaryFunctions ==
    {ValidSummaryFunction, Function(FALSE, <<>>, Empty),
     Function(TRUE, <<>>, DictStrAny),
     Function(TRUE, <<Param("results", ListDictStrAny), Param("extra", StrT)>>, DictStrAny)}
    \cup {Function(TRUE, <<Param(n, a)>>, r) :
             n \in {"results", "res"}, a \in ResultsAnnotations, r \in ReturnAnnotations}

\* A store is a function from the base names of the files of the folder to files.
NoFiles == <<>>

Without(store, names) == [n \in DOMAIN store \ names |-> store[n]]

\* What the generation driver leaves in meta_N.json: an object without response_num.
PlainMeta == JsonObjectFile("model" :> StrCell("m"))

\* A meta_N.json whose response_num disagrees with the file name.
NumberedMeta(i) == JsonObjectFile(("model" :> StrCell("m")) @@ ("response_num" :> IntCell(i)))

\* The four files of the complete record i; the response text has 5 * i characters.
CompleteRecord(i) ==
    (ResponseName(i) :> TextFile(Text(5 * i)))
    @@ (ThinkingName(i) :> TextFile(Text(i)))
    @@ (RawName(i) :> TextFile(Text(6 * i)))
    @@ (MetaName(i) :> PlainMeta)

RecordStates ==
    {"complete", "numbered", "absent", "no_response", "no_thinking", "no_raw", "no_meta",
     "no_thinking_no_meta", "bad_response", "bad_thinking", "bad_raw", "meta_invalid",
     "meta_array"}

\* The files of record i in one of the states a record can be found in.
RecordFiles(i, st) ==
    CASE st = "complete" -> CompleteRecord(i)
      [] st = "numbered" -> (MetaName(i) :> NumberedMeta(i + 5)) @@ CompleteRecord(i)
      [] st = "absent" -> NoFiles
      [] st = "no_response" -> Without(CompleteRecord(i), {ResponseName(i)})
      [] st = "no_thinking" -> Without(CompleteRecord(i), {ThinkingName(i)})
      [] st = "no_raw" -> Without(CompleteRecord(i), {RawName(i)})
      [] st = "no_meta" -> Without(CompleteRecord(i), {MetaName(i)})
      [] st = "no_thinking_no_meta" ->
             Without(CompleteRecord(i), {ThinkingName(i), MetaName(i)})
      [] st = "bad_response" -> (ResponseName(i) :> UndecodableFile) @@ CompleteRecord(i)
      [] st = "bad_thinking" -> (ThinkingName(i) :> UndecodableFile) @@ CompleteRecord(i)
      [] st = "bad_raw" -> (RawName(i) :> UndecodableFile) @@ CompleteRecord(i)
      [] st = "meta_invalid" -> (MetaName(i) :> JsonInvalidFile) @@ CompleteRecord(i)
      [] st = "meta_array" -> (MetaName(i) :> JsonArrayFile) @@ CompleteRecord(i)

\* The store of the records 1..k, record i in state rs[i].
RECURSIVE StoreOf(_, _)
StoreOf(rs, k) == IF k = 0 THEN NoFiles ELSE RecordFiles(k, rs[k]) @@ StoreOf(rs, k - 1)

\* The store of the complete records 1..k.
FullStore(k) == StoreOf([i \in 1..k |-> "complete"], k)

\* Further files that match response_*.txt: a zero-padded identifier, a name that
\* holds a second "response_", a name without an identifier.
ExtraNames ==
    {ResponsePrefix \o <<"0", "1">> \o TxtSuffix,
     ResponsePrefix \o <<"x", "_">> \o ResponseName(1),
     ResponsePrefix \o <<"a">> \o TxtSuffix}

ExtraFiles(name) == IF name = <<>> THEN NoFiles ELSE name :> TextFile(Text(3))

(***************************************************************************)
(* The state of one run of process_outputs.                                *)
(***************************************************************************)
VARIABLES
    test_function,      \* the signature of the analysis function passed
    summary_function,   \* the signature of the summary function passed
    test_outcomes,      \* what a call of the analysis function may do
    summary_outcomes,   \* what a call of the summary function may do
    folder_exists,      \* os.path.exists(folder_path)
    files,              \* the store: base name -> file
    pc,                 \* the section of process_outputs the run is at
    response_files,     \* the sorted list of matched names
    idx,                \* the position of the for loop in response_files
    results,            \* the accumulated Analysis Results
    printed,            \* the diagnostics printed so far
    fs_touched,         \* the file-system calls made so far
    test_calls,         \* the calls of the analysis function made so far
    summary_calls,      \* the arguments of the calls of the summary function
    returned,           \* the value returned, when pc = "returned"
    error,              \* the exception raised, when pc = "raised"
    earlier             \* how the earlier run over the same store ended, if any

(***************************************************************************)
(* The state of generate_responses, which writes the store.                *)
(***************************************************************************)
VARIABLES
    gen_pc,             \* where generate_responses is at ("idle": it is not run)
    num_responses,      \* the parameter num_responses
    verbose,            \* the parameter verbose
    start_response_num, \* get_next_response_number(dir_name)
    loop_i,             \* the variable i of "for i in range(num_responses)"
    success_count,
    thinking_count,
    saved,              \* the calls of save_response that returned True, this run
    dir_before,         \* the directory as it was when the run started
    stats,              \* the GenerationStats returned
    requests_left       \* what is left of MaxRequests for later runs

generator == <<gen_pc, num_responses, verbose, start_response_num, loop_i, success_count,
               thinking_count, saved, dir_before, stats, requests_left>>

\* What a run of process_outputs never assigns: its arguments, the store, the
\* record of an earlier run, and the state of the generation driver.
inputs == <<test_function, summary_function, test_outcomes, summary_outcomes,
            folder_exists, files, earlier, generator>>

vars == <<test_function, summary_function, test_outcomes, summary_outcomes,
          folder_exists, files, pc, response_files, idx, results, printed,
          fs_touched, test_calls, summary_calls, returned, error, earlier, generator>>

NoValue == Value("NoneType", {}, <<>>)

\* The state at the call of process_outputs.
Start ==
    /\ pc = "validate"
    /\ response_files = <<>>
    /\ idx = 0
    /\ results = <<>>
    /\ printed = <<>>
    /\ fs_touched = {}
    /\ test_calls = <<>>
    /\ summary_calls = <<>>
    /\ returned = NoValue
    /\ error = NoError

\* Valid, well-behaved callables on the complete records 1..K.
InitFull ==
    /\ test_function = ValidTestFunction
    /\ summary_function = ValidSummaryFunction
    /\ test_outcomes = {"ok"}
    /\ summary_outcomes = {"ok"}
    /\ folder_exists = TRUE
    /\ \E k \in 1..MaxK : files = FullStore(k)

\* Valid callables that may misbehave, on a store whose records 1..MaxId are each
\* in any state; on a store of complete, absent and meta-less records with one
\* further response file; or on no folder at all.
InitDamaged ==
    /\ test_function = ValidTestFunction
    /\ summary_function = ValidSummaryFunction
    /\ test_outcomes = Outcomes
    /\ summary_outcomes = Outcomes
    /\ \/ /\ folder_exists = TRUE
          /\ \E rs \in [1..MaxId -> RecordStates] : files = StoreOf(rs, MaxId)
       \/ /\ folder_exists = TRUE
          /\ \E rs \in [1..MaxId -> {"complete", "absent", "no_meta"}], extra \in ExtraNames :
                 files = ExtraFiles(extra) @@ StoreOf(rs, MaxId)
       \/ /\ folder_exists = FALSE
          /\ files = NoFiles

\* Any candidate callables, at most one of them freely chosen, on no folder, an
\* empty folder and a folder with one complete record.
InitCallables ==
    /\ \/ /\ test_function \in TestFunctions
          /\ summary_function \in {ValidSummaryFunction, Function(FALSE, <<>>, Empty)}
       \/ /\ test_function = ValidTestFunction
          /\ summary_function \in SummaryFunctions
    /\ test_outcomes = {"ok"}
    /\ summary_outcomes = {"ok"}
    /\ \/ folder_exists = FALSE /\ files = NoFiles
       \/ folder_exists = TRUE /\ files \in {NoFiles, FullStore(1)}

\* No earlier run.
NoRun == [pc |-> "none"]

\* generate_responses is not run: the store is what the caller found.
GeneratorIdle ==
    /\ gen_pc = "idle"
    /\ num_responses = 0
    /\ verbose = FALSE
    /\ start_response_num = 0
    /\ loop_i = 0
    /\ success_count = 0
    /\ thinking_count = 0
    /\ saved = <<>>
    /\ dir_before = NoFiles
    /\ stats = NoValue
    /\ requests_left = 0

Init == Start /\ earlier = NoRun /\ GeneratorIdle /\ (InitFull \/ InitDamaged \/ InitCallables)

(***************************************************************************)
(* process_outputs, section by section.                                    *)
(***************************************************************************)
FsCall(op, path) == [op |-> op, path |-> path]

\* The folder itself, as a path.
Folder == <<>>

Raise(e) ==
    /\ pc' = "raised"
    /\ error' = e

\* Sections 1 and 2: the signature checks, test_function first.
ValidateCallables ==
    /\ pc = "validate"
    /\ LET e1 == ValidateTestFunction(test_function)
           e == IF e1 # NoError THEN e1 ELSE ValidateSummaryFunction(summary_function)
       IN  IF e # NoError THEN Raise(e) ELSE pc' = "check_folder" /\ error' = error
    /\ UNCHANGED <<inputs, response_files, idx, results, printed, fs_touched,
                   test_calls, summary_calls, returned>>

\* Section 3 without its raise: the run goes on to glob a folder that is not there.
CheckFolderNoRaise ==
    /\ pc = "check_folder"
    /\ fs_touched' = fs_touched \cup {FsCall("exists", Folder)}
    /\ pc' = "find_files"
    /\ UNCHANGED <<inputs, response_files, idx, results, printed, test_calls,
                   summary_calls, returned, error>>

\* Section 3: the folder must exist.
CheckFolder ==
    /\ pc = "check_folder"
    /\ fs_touched' = fs_touched \cup {FsCall("exists", Folder)}
    /\ IF ~folder_exists
       THEN Raise(ValueError("Folder path does not exist"))
       ELSE pc' = "find_files" /\ error' = error
    /\ UNCHANGED <<inputs, response_files, idx, results, printed, test_calls,
                   summary_calls, returned>>

\* glob.glob(os.path.join(folder_path, "response_*.txt")).
Glob(store) == {n \in DOMAIN store : MatchesResponseGlob(n)}

\* response_files = sorted(glob.glob(...)).
ResponseFiles(store) == SortedNames(Glob(store))

\* Section 4: the response files, sorted; there must be one.
FindResponseFiles ==
    /\ pc = "find_files"
    /\ fs_touched' = fs_touched \cup {FsCall("glob", Folder)}
    /\ response_files' = ResponseFiles(files)
    /\ IF ResponseFiles(files) = <<>>
       THEN Raise(ValueError("No response files found")) /\ idx' = idx
       ELSE pc' = "loop" /\ idx' = 1 /\ error' = error
    /\ UNCHANGED <<inputs, results, printed, test_calls, summary_calls, returned>>

\* The file of the current iteration of "for response_file in response_files".
response_file == response_files[idx]

InLoop == pc = "loop" /\ idx \in 1..Len(response_files)

\* An iteration that goes on to section 6 whatever files are left.
NextIterationStopsEarly ==
    /\ idx' = idx + 1
    /\ pc' = "summarize"

\* The end of an iteration: the next file, or section 6 after the last one.
NextIteration ==
    /\ idx' = idx + 1
    /\ pc' = IF idx = Len(response_files) THEN "summarize" ELSE "loop"

Diagnostic(kind, num, name, detail) ==
    [kind |-> kind, num |-> num, name |-> name, detail |-> detail]

\* The try around int(re.search(...).group(1)) fails: no identifier, the entry is skipped.
SkipUnparseable ==
    /\ InLoop
    /\ ~HasMatch(response_file)
    /\ printed' = Append(printed,
           Diagnostic("Warning: Could not extract response number", 0, response_file, <<>>))
    /\ NextIteration
    /\ UNCHANGED <<inputs, response_files, results, fs_touched, test_calls,
                   summary_calls, returned, error>>

\* [response_file, thinking_file, raw_file, meta_file] of an identifier.
RequiredFiles(file, num) == <<file, ThinkingName(num), RawName(num), MetaName(num)>>

\* The names the warning gives the four files.
ReportedNames(num) == <<ResponseName(num), ThinkingName(num), RawName(num), MetaName(num)>>

\* os.path.exists of a file of the folder.
Exists(store, name) == name \in DOMAIN store

\* all(os.path.exists(f) for f in [...]).
AllExist(store, file, num) ==
    \A i \in 1..4 : Exists(store, RequiredFiles(file, num)[i])

\* The list "missing": the reported name of each file that does not exist, in order.
RECURSIVE MissingFrom(_, _, _, _)
MissingFrom(store, file, num, i) ==
    IF i > 4 THEN <<>>
    ELSE (IF Exists(store, RequiredFiles(file, num)[i]) THEN <<>>
          ELSE <<ReportedNames(num)[i]>>)
         \o MissingFrom(store, file, num, i + 1)

\* A report that lists all four names, whatever is missing.
MissingListsAll(store, file, num) == ReportedNames(num)

Missing(store, file, num) == MissingFrom(store, file, num, 1)

ExistsCalls(file, num) == {FsCall("exists", RequiredFiles(file, num)[i]) : i \in 1..4}

\* A file is missing: one warning that lists the missing files, the identifier is skipped.
SkipMissing ==
    /\ InLoop
    /\ HasMatch(response_file)
    /\ LET num == ExtractResponseNum(response_file)
       IN  /\ ~AllExist(files, response_file, num)
           /\ fs_touched' = fs_touched \cup ExistsCalls(response_file, num)
           /\ printed' = Append(printed,
                  Diagnostic("Warning: Missing files", num, response_file,
                             Missing(files, response_file, num)))
    /\ NextIteration
    /\ UNCHANGED <<inputs, response_files, results, test_calls, summary_calls,
                   returned, error>>

\* Reads that fail only on bytes that do not decode: whatever json.load gives is
\* taken as the metadata.
FailingReadDecodeOnly(store, file, num) ==
    LET paths == RequiredFiles(file, num)
        bad == {i \in 1..4 : ~store[paths[i]].decodes}
    IN  IF bad = {} THEN 0 ELSE CHOOSE i \in bad : \A j \in bad : i <= j

\* The position (1..4) of the first of the four reads that raises, 0 when none does:
\* f.read() raises when the bytes do not decode, json.load also when the text is no
\* JSON, and the isinstance check of the metadata raises when it is no dict.
FailingRead(store, file, num) ==
    LET paths == RequiredFiles(file, num)
        bad == {i \in 1..4 : ~store[paths[i]].decodes}
                   \cup (IF store[paths[4]].json # "object" THEN {4} ELSE {})
    IN  IF bad = {} THEN 0 ELSE CHOOSE i \in bad : \A j \in bad : i <= j

\* What the exception of the failing read says.
ReadErrorDetail(store, file, num) ==
    LET i == FailingRead(store, file, num)
        f == store[RequiredFiles(file, num)[i]]
    IN  IF ~f.decodes THEN "UnicodeDecodeError"
        ELSE IF f.json = "invalid" THEN "JSONDecodeError"
        ELSE "did not parse into a dict"

OpenCalls(file, num, upto) == {FsCall("open", RequiredFiles(file, num)[i]) : i \in 1..upto}

\* A read raises inside the try: "Error processing response", the identifier is skipped.
SkipUnreadable ==
    /\ InLoop
    /\ HasMatch(response_file)
    /\ LET num == ExtractResponseNum(response_file)
       IN  /\ AllExist(files, response_file, num)
           /\ FailingRead(files, response_file, num) # 0
           /\ fs_touched' = fs_touched \cup ExistsCalls(response_file, num)
                  \cup OpenCalls(response_file, num, FailingRead(files, response_file, num))
           /\ printed' = Append(printed,
                  Diagnostic("Error processing response", num, response_file,
                             <<ReadErrorDetail(files, response_file, num)>>))
    /\ NextIteration
    /\ UNCHANGED <<inputs, response_files, results, test_calls, summary_calls,
                   returned, error>>

\* The 0-based position injected instead of the number of the file name.
InjectIndex(items, num) ==
    IF "response_num" \in DOMAIN items THEN items
    ELSE ("response_num" :> IntCell(num - 1)) @@ items

\* The identifier written into the metadata whatever the file says.
InjectAlways(items, num) ==
    ("response_num" :> IntCell(num)) @@ [k \in DOMAIN items \ {"response_num"} |-> items[k]]

\* "if 'response_num' not in metadata: metadata['response_num'] = response_num".
InjectResponseNum(items, num) ==
    IF "response_num" \in DOMAIN items THEN items
    ELSE ("response_num" :> IntCell(num)) @@ items

\* The arguments of test_function(metadata, raw_text, thinking_text, response_text).
TestArguments(store, file, num) ==
    LET paths == RequiredFiles(file, num)
    IN  [metadata |-> InjectResponseNum(store[paths[4]].items, num),
         raw_output |-> UniversalNewlines(store[paths[3]].text),
         thinking |-> UniversalNewlines(store[paths[2]].text),
         response |-> UniversalNewlines(store[paths[1]].text)]

Call(file, num, args, outcome) ==
    [file |-> file, num |-> num, args |-> args, outcome |-> outcome]

\* The value a call of test_function with these arguments returns when it returns.
TestReturn(args, outcome) ==
    Returned(outcome, TestValue(args.metadata, args.raw_output, args.thinking, args.response))

\* The call and the check outside the try: a failure of a record ends the run.
AnalyzeRecordFatal ==
    /\ InLoop
    /\ HasMatch(response_file)
    /\ LET num == ExtractResponseNum(response_file)
       IN  /\ AllExist(files, response_file, num)
           /\ FailingRead(files, response_file, num) = 0
           /\ fs_touched' = fs_touched \cup ExistsCalls(response_file, num)
                  \cup OpenCalls(response_file, num, 4)
           /\ \E outcome \in test_outcomes :
                  LET args == TestArguments(files, response_file, num)
                      v == TestReturn(args, outcome)
                  IN  /\ test_calls' = Append(test_calls, Call(response_file, num, args, outcome))
                      /\ IF outcome # "raise" /\ ValidReturn(v)
                         THEN /\ results' = Append(results, v)
                              /\ NextIteration
                              /\ error' = error
                         ELSE /\ results' = results
                              /\ idx' = idx
                              /\ Raise(IF outcome = "raise" THEN CallableError
                                       ELSE ReturnError("test_function", v))
    /\ UNCHANGED <<inputs, response_files, printed, summary_calls, returned>>

\* The metadata passed to test_function is also saved to meta_N.json.
AnalyzeRecordWriteBack ==
    /\ InLoop
    /\ HasMatch(response_file)
    /\ LET num == ExtractResponseNum(response_file)
       IN  /\ AllExist(files, response_file, num)
           /\ FailingRead(files, response_file, num) = 0
           /\ fs_touched' = fs_touched \cup ExistsCalls(response_file, num)
                  \cup OpenCalls(response_file, num, 4)
           /\ \E outcome \in test_outcomes :
                  LET args == TestArguments(files, response_file, num)
                      v == TestReturn(args, outcome)
                  IN  /\ test_calls' = Append(test_calls, Call(response_file, num, args, outcome))
                      /\ files' = [files EXCEPT ![MetaName(num)].items = args.metadata]
                      /\ results' = IF outcome # "raise" /\ ValidReturn(v)
                                    THEN Append(results, v) ELSE results
                      /\ printed' = IF outcome # "raise" /\ ValidReturn(v) THEN printed
                                    ELSE Append(printed,
                                             Diagnostic("Error processing response", num,
                                                        response_file, <<"not accumulated">>))
    /\ NextIteration
    /\ UNCHANGED <<test_function, summary_function, test_outcomes, summary_outcomes,
                   folder_exists, earlier, generator, response_files, summary_calls,
                   returned, error>>

\* The record loads: test_function is called; its result is appended when it is a
\* dict with str keys; an exception of the call or of the check is printed.
AnalyzeRecord ==
    /\ InLoop
    /\ HasMatch(response_file)
    /\ LET num == ExtractResponseNum(response_file)
       IN  /\ AllExist(files, response_file, num)
           /\ FailingRead(files, response_file, num) = 0
           /\ fs_touched' = fs_touched \cup ExistsCalls(response_file, num)
                  \cup OpenCalls(response_file, num, 4)
           /\ \E outcome \in test_outcomes :
                  LET args == TestArguments(files, response_file, num)
                      v == TestReturn(args, outcome)
                  IN  /\ test_calls' = Append(test_calls, Call(response_file, num, args, outcome))
                      /\ IF outcome = "raise"
                         THEN /\ results' = results
                              /\ printed' = Append(printed,
                                     Diagnostic("Error processing response", num,
                                                response_file, <<"raised by test_function">>))
                         ELSE IF ValidReturn(v)
                         THEN /\ results' = Append(results, v)
                              /\ printed' = printed
                         ELSE /\ results' = results
                              /\ printed' = Append(printed,
                                     Diagnostic("Error processing response", num,
                                                response_file,
                                                <<ReturnError("test_function", v).what>>))
    /\ NextIteration
    /\ UNCHANGED <<inputs, response_files, summary_calls, returned, error>>

\* No guard: the summary function is called on whatever was accumulated.
NeverNoResults(rs) == FALSE

\* "if not results".
NoResults(rs) == rs = <<>>

\* Section 6 with no result: the sentinel is returned.
ReturnSentinel ==
    /\ pc = "summarize"
    /\ NoResults(results)
    /\ returned' = Sentinel
    /\ pc' = "returned"
    /\ UNCHANGED <<inputs, response_files, idx, results, printed, fs_touched,
                   test_calls, summary_calls, error>>

SummaryCall(args, outcome) == [args |-> args, outcome |-> outcome]

\* Section 6: summary_function(results), and the check of what it returns.
Summarize ==
    /\ pc = "summarize"
    /\ ~NoResults(results)
    /\ \E outcome \in summary_outcomes :
           LET v == Returned(outcome, SummaryValue(results))
           IN  /\ summary_calls' = Append(summary_calls, SummaryCall(results, outcome))
               /\ IF outcome = "raise"
                  THEN Raise(CallableError) /\ returned' = returned
                  ELSE IF ValidReturn(v)
                  THEN pc' = "returned" /\ returned' = v /\ error' = error
                  ELSE Raise(ReturnError("summary_function", v)) /\ returned' = returned
    /\ UNCHANGED <<inputs, response_files, idx, results, printed, fs_touched, test_calls>>

Next ==
    \/ ValidateCallables
    \/ CheckFolder
    \/ FindResponseFiles
    \/ SkipUnparseable
    \/ SkipMissing
    \/ SkipUnreadable
    \/ AnalyzeRecord
    \/ ReturnSentinel
    \/ Summarize

Spec == Init /\ [][Next]_vars

(***************************************************************************)
(* Two runs of process_outputs, one after the other, over the same store   *)
(* and with the same callables.                                            *)
(***************************************************************************)
\* What a caller and a reader of the console see of a run that has ended.
RunRecord ==
    [pc |-> pc, returned |-> returned, error |-> error, printed |-> printed,
     test_calls |-> test_calls, summary_calls |-> summary_calls]

\* process_outputs is called again once the first call has returned or raised.
RunAgain ==
    /\ pc \in {"returned", "raised"}
    /\ earlier = NoRun
    /\ earlier' = RunRecord
    /\ pc' = "validate"
    /\ response_files' = <<>>
    /\ idx' = 0
    /\ results' = <<>>
    /\ printed' = <<>>
    /\ fs_touched' = {}
    /\ test_calls' = <<>>
    /\ summary_calls' = <<>>
    /\ returned' = NoValue
    /\ error' = NoError
    /\ UNCHANGED <<test_function, summary_function, test_outcomes, summary_outcomes,
                   folder_exists, files, generator>>

\* The states a record is found in, for the runs that are repeated.
RepeatedRecordStates == {"complete", "numbered", "absent", "no_meta", "meta_invalid"}

\* Valid callables that behave the same way at every call (each gives a result, or
\* raises, or returns a value of the wrong kind), on a store of records 1..MaxId, on
\* the complete records with one further response file, or on no folder.
InitTwice ==
    /\ Start
    /\ earlier = NoRun
    /\ GeneratorIdle
    /\ test_function = ValidTestFunction
    /\ summary_function = ValidSummaryFunction
    /\ \E o \in Outcomes : test_outcomes = {o}
    /\ \E o \in Outcomes : summary_outcomes = {o}
    /\ \/ /\ folder_exists = TRUE
          /\ \E rs \in [1..MaxId -> RepeatedRecordStates] : files = StoreOf(rs, MaxId)
       \/ /\ folder_exists = TRUE
          /\ \E extra \in ExtraNames : files = ExtraFiles(extra) @@ FullStore(MaxId)
       \/ /\ folder_exists = FALSE
          /\ files = NoFiles

NextTwice ==
    \/ ValidateCallables
    \/ CheckFolder
    \/ FindResponseFiles
    \/ SkipUnparseable
    \/ SkipMissing
    \/ SkipUnreadable
    \/ AnalyzeRecord
    \/ ReturnSentinel
    \/ Summarize
    \/ RunAgain

SpecTwice == InitTwice /\ [][NextTwice]_vars

(***************************************************************************)
(* generate_responses of response_generator.py: it numbers the responses   *)
(* after the highest response file of the directory and saves each in four *)
(* files.                                                                  *)
(***************************************************************************)
\* re.match(r'response_(\d+)\.txt', filename): a match at the start of the name.
MatchesAtStart(name) == MatchAt(name, 1)

\* int(match.group(1)) of that match.
StartNumber(name) ==
    LET d == 1 + Len(ResponsePrefix)
    IN  ParseInt(SubSeq(name, d, d + DigitRun(name, d) - 1))

\* The numbers the loop of get_next_response_number folds with max.
MatchedNumbers(store) == {StartNumber(name) : name \in {n \in Glob(store) : MatchesAtStart(n)}}

\* The number of matched files plus one.
NextNumberByCount(store) == Cardinality(Glob(store)) + 1

\* get_next_response_number: highest + 1, highest = 0 when no name gives a number.
get_next_response_number(store) ==
    LET nums == MatchedNumbers(store) \cup {0}
    IN  (CHOOSE h \in nums : \A n \in nums : n <= h) + 1

\* What generate_ollama_response returns when the backend answers: the raw text, the
\* text without the <think> blocks, their contents, and whether there was one.
ResponseData(text, thinking, raw_text, has_thinking) ==
    [text |-> text, thinking |-> thinking, raw_text |-> raw_text,
     has_thinking |-> has_thinking]

\* An answer of two lines that the backend ends with "\r\n".
TwoLines == "a" \o CR \o LF \o "b"

\* An answer without a <think> block, one with a block of two characters (the
\* tags <think> and </think> take 15 characters of the raw text), and one of two
\* lines.
Answers ==
    {ResponseData(Text(7), "", Text(7), FALSE),
     ResponseData(Text(8), Text(2), Text(8 + 2 + 15), TRUE),
     ResponseData(TwoLines, "", TwoLines, FALSE)}

\* The object json.dump writes to meta_N.json (the nested objects "response",
\* "thinking" and "total" are left out): it has no response_num.
SavedMeta(data) == JsonObjectFile(("model" :> StrCell("m")) @@ ("prompt" :> StrCell("p")))

\* A meta_N.json that was opened for writing and not written to the end.
TruncatedMeta == File(TRUE, "{", "invalid", <<>>)

\* The four files of save_response, in the order they are written.
SavedFiles(data, num) ==
    <<<<ResponseName(num), TextFile(WriteNewlines(data.text))>>,
      <<ThinkingName(num), TextFile(WriteNewlines(data.thinking))>>,
      <<RawName(num), TextFile(WriteNewlines(data.raw_text))>>,
      <<MetaName(num), SavedMeta(data)>>>>

\* The store after the first n of them are written: open(..., "w") replaces a file.
RECURSIVE Written(_, _, _, _)
Written(store, data, num, n) ==
    IF n = 0 THEN store
    ELSE (SavedFiles(data, num)[n][1] :> SavedFiles(data, num)[n][2])
         @@ Written(store, data, num, n - 1)

\* What the process_outputs part of the state is while the driver runs.
analysis == <<test_function, summary_function, test_outcomes, summary_outcomes, pc,
              response_files, idx, results, printed, fs_touched, test_calls,
              summary_calls, returned, error, earlier>>

\* ensure_directory_exists, get_next_response_number and the counters set to 0.
StartGeneration ==
    /\ gen_pc = "call"
    /\ folder_exists' = TRUE
    /\ dir_before' = files
    /\ start_response_num' = get_next_response_number(files)
    /\ success_count' = 0
    /\ thinking_count' = 0
    /\ loop_i' = 0
    /\ saved' = <<>>
    /\ gen_pc' = "loop"
    /\ UNCHANGED <<analysis, files, num_responses, verbose, stats, requests_left>>

InGenerationLoop == gen_pc = "loop" /\ loop_i < num_responses

\* response_num = start_response_num + i.
response_num == start_response_num + loop_i

\* generate_ollama_response returns None: nothing is saved, nothing is counted.
GenerationFails ==
    /\ InGenerationLoop
    /\ loop_i' = loop_i + 1
    /\ UNCHANGED <<analysis, folder_exists, files, gen_pc, num_responses, verbose,
                   start_response_num, success_count, thinking_count, saved, dir_before,
                   stats, requests_left>>

\* save_response returns True: the four files are written and the response is
\* counted; its thinking is counted inside "if verbose:".
SaveSucceeds ==
    /\ InGenerationLoop
    /\ \E data \in Answers :
           /\ files' = Written(files, data, response_num, 4)
           /\ saved' = Append(saved, [num |-> response_num, data |-> data,
                                      has_thinking |-> data.has_thinking])
           /\ thinking_count' = IF verbose /\ data.has_thinking
                                THEN thinking_count + 1 ELSE thinking_count
    /\ success_count' = success_count + 1
    /\ loop_i' = loop_i + 1
    /\ UNCHANGED <<analysis, folder_exists, gen_pc, num_responses, verbose,
                   start_response_num, dir_before, stats, requests_left>>

\* save_response returns False: the write of the k-th file raised; the files before
\* it are written, and the k-th is either not there or, for meta_N.json, cut short.
SaveFails ==
    /\ InGenerationLoop
    /\ \E data \in Answers, k \in 1..4, cut \in BOOLEAN :
           /\ cut => k = 4
           /\ files' = (IF cut THEN MetaName(response_num) :> TruncatedMeta ELSE NoFiles)
                       @@ Written(files, data, response_num, k - 1)
    /\ loop_i' = loop_i + 1
    /\ UNCHANGED <<analysis, folder_exists, gen_pc, num_responses, verbose,
                   start_response_num, success_count, thinking_count, saved, dir_before,
                   stats, requests_left>>

\* The GenerationStats returned (the directory, the time and the temperature left out).
GenerationStats ==
    [success_count |-> success_count,
     thinking_count |-> thinking_count,
     responses_requested |-> num_responses,
     start_response_num |-> start_response_num,
     end_response_num |-> start_response_num + success_count - 1]

\* The loop is over: the statistics are returned.
ReturnStats ==
    /\ gen_pc = "loop"
    /\ loop_i = num_responses
    /\ stats' = GenerationStats
    /\ gen_pc' = "done"
    /\ UNCHANGED <<analysis, folder_exists, files, num_responses, verbose,
                   start_response_num, loop_i, success_count, thinking_count, saved,
                   dir_before, requests_left>>

\* generate_responses is called again on the same directory.
GenerateAgain ==
    /\ gen_pc = "done"
    /\ requests_left > 0
    /\ \E n \in 1..requests_left :
           /\ num_responses' = n
           /\ requests_left' = requests_left - n
    /\ gen_pc' = "call"
    /\ UNCHANGED <<analysis, folder_exists, files, verbose, start_response_num, loop_i,
                   success_count, thinking_count, saved, dir_before, stats>>

\* The complete record MaxId alone: the numbers below it are not in use.
LastRecordOnly == CompleteRecord(MaxId)

\* The directories generate_responses is run on: none yet, an empty one, one of
\* complete records, one whose numbers have a gap, one with a further response file.
Directories ==
    {NoFiles, FullStore(MaxId), LastRecordOnly}
    \cup {ExtraFiles(extra) @@ FullStore(1) : extra \in ExtraNames}

InitGen ==
    /\ Start
    /\ earlier = NoRun
    /\ test_function = ValidTestFunction
    /\ summary_function = ValidSummaryFunction
    /\ test_outcomes = {"ok"}
    /\ summary_outcomes = {"ok"}
    /\ files \in Directories
    /\ folder_exists \in (IF files = NoFiles THEN BOOLEAN ELSE {TRUE})
    /\ gen_pc = "call"
    /\ num_responses \in 0..MaxRequests
    /\ requests_left = MaxRequests - num_responses
    /\ verbose \in BOOLEAN
    /\ start_response_num = 0
    /\ loop_i = 0
    /\ success_count = 0
    /\ thinking_count = 0
    /\ saved = <<>>
    /\ dir_before = NoFiles
    /\ stats = NoValue

NextGen ==
    \/ StartGeneration
    \/ GenerationFails
    \/ SaveSucceeds
    \/ SaveFails
    \/ ReturnStats
    \/ GenerateAgain

SpecGen == InitGen /\ [][NextGen]_vars

(***************************************************************************)
(* The round trip of the examples: text_executions.py generates into a     *)
(* folder, then test_analysis.py runs process_outputs on that folder.      *)
(***************************************************************************)
\* The siblings of record 1 without its response file.
StaleSiblings == Without(CompleteRecord(1), {ResponseName(1)})

\* The folders the round trip starts on: none or an empty one, one complete record,
\* sibling files left without their response file, one odd response file.
RoundTripDirectories ==
    {NoFiles, FullStore(1), StaleSiblings} \cup {ExtraFiles(extra) : extra \in ExtraNames}

InitRoundTrip ==
    /\ pc = "waiting"
    /\ response_files = <<>>
    /\ idx = 0
    /\ results = <<>>
    /\ printed = <<>>
    /\ fs_touched = {}
    /\ test_calls = <<>>
    /\ summary_calls = <<>>
    /\ returned = NoValue
    /\ error = NoError
    /\ earlier = NoRun
    /\ test_function = ValidTestFunction
    /\ summary_function = ValidSummaryFunction
    /\ test_outcomes = {"ok"}
    /\ summary_outcomes = {"ok"}
    /\ files \in RoundTripDirectories
    /\ folder_exists \in (IF files = NoFiles THEN BOOLEAN ELSE {TRUE})
    /\ gen_pc = "call"
    /\ num_responses \in 0..MaxRequests
    /\ requests_left = 0
    /\ verbose = TRUE
    /\ start_response_num = 0
    /\ loop_i = 0
    /\ success_count = 0
    /\ thinking_count = 0
    /\ saved = <<>>
    /\ dir_before = NoFiles
    /\ stats = NoValue

\* generate_responses has returned: process_outputs is called on its folder.
ProcessGenerated ==
    /\ gen_pc = "done"
    /\ pc = "waiting"
    /\ pc' = "validate"
    /\ UNCHANGED <<inputs, response_files, idx, results, printed, fs_touched, test_calls,
                   summary_calls, returned, error>>

NextRoundTrip ==
    \/ StartGeneration
    \/ GenerationFails
    \/ SaveSucceeds
    \/ SaveFails
    \/ ReturnStats
    \/ ProcessGenerated
    \/ ValidateCallables
    \/ CheckFolder
    \/ FindResponseFiles
    \/ SkipUnparseable
    \/ SkipMissing
    \/ SkipUnreadable
    \/ AnalyzeRecord
    \/ ReturnSentinel
    \/ Summarize

SpecRoundTrip == InitRoundTrip /\ [][NextRoundTrip]_vars

(***************************************************************************)
(* Properties.                                                             *)
(***************************************************************************)
\* The run has left the for loop (or never entered it).
LoopDone == pc \in {"summarize", "returned", "raised"}

Finished == pc \in {"returned", "raised"}

\* Both signature checks passed: the run went on to the folder.
ValidationPassed ==
    \/ pc \in {"check_folder", "find_files", "loop", "summarize", "returned"}
    \/ pc = "raised" /\ fs_touched # {}

ValidCallables ==
    test_function = ValidTestFunction /\ summary_function = ValidSummaryFunction

\* Every call of the analysis function so far returned a valid result.
AllCallsOk == \A j \in 1..Len(test_calls) : test_calls[j].outcome = "ok"

\* The store holds exactly the complete records 1..k.
IsFullStore(k) == k \in 1..MaxK /\ files = FullStore(k)

\* C1: on a store of the complete records 1..K, with valid well-behaved callables,
\* the analysis function is called on the records in ascending numeric order: when
\* the loop is done the results are K, and the i-th call and the i-th result come
\* from record i.
C1_AscendingNumericOrder ==
    LET k == Cardinality(DOMAIN files) \div 4
    IN  (LoopDone /\ folder_exists /\ ValidCallables /\ AllCallsOk /\ IsFullStore(k))
        => /\ Len(results) = k
           /\ \A i \in 1..k :
                  /\ test_calls[i].num = i
                  /\ results[i] = TestValue(TestArguments(files, ResponseName(i), i).metadata,
                                            "", "", files[ResponseName(i)].text)

\* The store of the records 1..k, complete but for record i, which is in state st.
DamagedStore(k, i, st) == StoreOf([j \in 1..k |-> IF j = i THEN st ELSE "complete"], k)

\* The name a record state takes away from a record.
MissingName(i, st) ==
    CASE st = "no_response" -> ResponseName(i)
      [] st = "no_thinking" -> ThinkingName(i)
      [] st = "no_raw" -> RawName(i)
      [] st = "no_meta" -> MetaName(i)

\* The run is over a store of records 1..k with one file of record i missing, the
\* analysis function never failed, and the loop is done.
OneFileMissing(k, i, st) ==
    /\ LoopDone
    /\ folder_exists
    /\ ValidCallables
    /\ AllCallsOk
    /\ files = DamagedStore(k, i, st)

\* Exactly one diagnostic, which names record i and the one missing file.
OneDiagnosticFor(i, st) ==
    /\ Len(printed) = 1
    /\ printed[1].kind = "Warning: Missing files"
    /\ printed[1].num = i
    /\ printed[1].detail = <<MissingName(i, st)>>

\* C2 as stated: whichever of the four files of record i is missing, K-1 results
\* are accumulated and exactly one diagnostic names record i and the missing file.
C2_AnyOfFourMissing ==
    \A k \in 1..MaxId : \A i \in 1..k :
        \A st \in {"no_response", "no_thinking", "no_raw", "no_meta"} :
            OneFileMissing(k, i, st) => Len(results) = k - 1 /\ OneDiagnosticFor(i, st)

\* C2, amended: K-1 results are accumulated in every case; a missing thinking,
\* raw_output or meta file gives exactly one diagnostic that names record i and the
\* missing file, a missing response file gives no diagnostic at all (the record is
\* never discovered, and with no response file left the run raises ValueError).
C2_SiblingMissing ==
    \A k \in 1..MaxId : \A i \in 1..k :
        /\ \A st \in {"no_thinking", "no_raw", "no_meta"} :
               OneFileMissing(k, i, st) => Len(results) = k - 1 /\ OneDiagnosticFor(i, st)
        /\ OneFileMissing(k, i, "no_response") =>
               /\ Len(results) = k - 1
               /\ printed = <<>>
               /\ k = 1 => pc = "raised" /\ error = ValueError("No response files found")

\* C2 witness: records 1 and 2, meta_2.json missing; the run returned a summary of
\* record 1 alone and printed one warning about record 2.
C2_Witness ==
    /\ OneFileMissing(2, 2, "no_meta")
    /\ pc = "returned"
    /\ Len(results) = 1
    /\ results[1].items["response_num"] = IntCell(1)
    /\ OneDiagnosticFor(2, "no_meta")

\* C3: an analysis function passes the checks only if its signature is exactly
\* (metadata: Dict[str, Any], raw_output: str, thinking: str, response: str)
\* -> Dict[str, Any].
C3_OnlyExactTestSignature ==
    ValidationPassed => test_function = ValidTestFunction

\* C4: a summary function passes the checks only if it is callable and its
\* signature is exactly (results: List[Dict[str, Any]]) -> Dict[str, Any]; with any
\* other signature the run ends in a TypeError before it touches the folder.
C4_OnlyExactSummarySignature ==
    /\ ValidationPassed => summary_function = ValidSummaryFunction
    /\ (summary_function # ValidSummaryFunction /\ pc # "validate")
           => pc = "raised" /\ error.type = "TypeError" /\ fs_touched = {}

\* C4 witness: a summary function annotated with the bare list was rejected for
\* that annotation (the analysis function being valid).
C4_Witness ==
    /\ test_function = ValidTestFunction
    /\ summary_function = Function(TRUE, <<Param("results", BareList)>>, DictStrAny)
    /\ pc = "raised"
    /\ error = TypeError("annotation", "results")

\* C5: when a callable deviates from its contract, the run makes no file-system
\* call and calls neither callable.
C5_RejectedBeforeAnyIO ==
    ~ValidCallables => fs_touched = {} /\ test_calls = <<>> /\ summary_calls = <<>>

\* C6: with valid callables, a folder that does not exist or holds no file matching
\* response_*.txt ends the run in the ValueError of that case, and neither callable
\* is ever called.
C6_NoStoreNoCalls ==
    (ValidCallables /\ (~folder_exists \/ \A n \in DOMAIN files : ~MatchesResponseGlob(n)))
        => /\ test_calls = <<>>
           /\ summary_calls = <<>>
           /\ pc \in {"validate", "check_folder", "find_files", "raised"}
           /\ pc = "raised" =>
                  error = ValueError(IF ~folder_exists THEN "Folder path does not exist"
                                     ELSE "No response files found")

\* C6 witness: a folder that holds files, none of them a response file, was refused.
C6_Witness ==
    /\ ValidCallables
    /\ folder_exists
    /\ files # NoFiles
    /\ pc = "raised"
    /\ error = ValueError("No response files found")

\* C7: a finished run that matched a response file and accumulated no result
\* returned exactly the sentinel and never called the summary function.
C7_SentinelWithoutSummary ==
    (Finished /\ response_files # <<>> /\ results = <<>>)
        => pc = "returned" /\ returned = Sentinel /\ summary_calls = <<>>

\* C7 witness: the sentinel was returned after the analysis function was called and
\* its result was dropped.
C7_Witness ==
    /\ pc = "returned"
    /\ returned = Sentinel
    /\ test_calls # <<>>
    /\ printed # <<>>

\* C8: once the summary function was called the run is finished: it raised when the
\* call raised (that exception), when the value is no dict (a TypeError naming the
\* type returned) and when the dict has a key that is no str (a TypeError); it
\* returned the value of the call, unchanged, when that is a dict with str keys.
C8_SummaryValueChecked ==
    summary_calls # <<>> =>
        LET c == summary_calls[1]
            v == Returned(c.outcome, SummaryValue(c.args))
        IN  /\ Len(summary_calls) = 1
            /\ Finished
            /\ c.outcome = "raise" => pc = "raised" /\ error = CallableError
            /\ c.outcome = "nondict" =>
                   /\ pc = "raised"
                   /\ error = TypeError("summary_function returned list",
                                        "expected Dict[str, Any]")
            /\ c.outcome = "badkey" => pc = "raised" /\ error.type = "TypeError"
            /\ pc = "raised" => returned = NoValue
            /\ c.outcome = "ok" => pc = "returned" /\ returned = v /\ error = NoError

\* C8 witness: the summary function returned a list and the run raised.
C8_Witness ==
    /\ summary_calls # <<>>
    /\ summary_calls[1].outcome = "nondict"
    /\ pc = "raised"
    /\ error.what = "summary_function returned list"

\* The file loads: it has an identifier, its four files exist and no read fails.
Loads(file) ==
    /\ HasMatch(file)
    /\ AllExist(files, file, ExtractResponseNum(file))
    /\ FailingRead(files, file, ExtractResponseNum(file)) = 0

\* The files the loop has dealt with so far.
Processed == SubSeq(response_files, 1, idx - 1)

\* The results of the calls that returned a valid value, in the order of the calls.
RECURSIVE OkResults(_)
OkResults(calls) ==
    IF calls = <<>> THEN <<>>
    ELSE (IF calls[1].outcome = "ok" THEN <<TestReturn(calls[1].args, "ok")>> ELSE <<>>)
         \o OkResults(Tail(calls))

\* C9: a failure of the analysis function for a record (an exception, a value that
\* is no dict, a dict with a key that is no str) never ends the run: every file that
\* loads is passed to the analysis function with its own contents, whatever happened
\* before it; the results are those of the calls that succeeded, in order; the only
\* raise after a call of the analysis function is that of the summary step; and a
\* run that left the loop dealt with every matched file.
C9_RecordFailureNotFatal ==
    /\ Len(test_calls) = Len(SelectSeq(Processed, Loads))
    /\ \A j \in 1..Len(test_calls) :
           LET f == SelectSeq(Processed, Loads)[j]
           IN  /\ test_calls[j].file = f
               /\ test_calls[j].args = TestArguments(files, f, ExtractResponseNum(f))
    /\ results = OkResults(test_calls)
    /\ (pc = "raised" /\ test_calls # <<>>) => summary_calls # <<>>
    /\ (LoopDone /\ response_files # <<>>) => idx = Len(response_files) + 1

\* C9 witness: the run returned after the call for one record failed and the call
\* for a later record succeeded and gave a result.
C9_Witness ==
    /\ pc = "returned"
    /\ Len(test_calls) >= 2
    /\ test_calls[1].outcome # "ok"
    /\ test_calls[Len(test_calls)].outcome = "ok"
    /\ results # <<>>

\* All four files of the file's identifier exist, the three texts decode and the
\* metadata file decodes and parses into a JSON object.
RecordUsable(file) ==
    LET num == ExtractResponseNum(file)
    IN  /\ {file, ThinkingName(num), RawName(num), MetaName(num)} \subseteq DOMAIN files
        /\ files[file].decodes
        /\ files[ThinkingName(num)].decodes
        /\ files[RawName(num)].decodes
        /\ files[MetaName(num)].decodes
        /\ files[MetaName(num)].json = "object"

CallsFor(file) == {j \in 1..Len(test_calls) : test_calls[j].file = file}

\* C10: the analysis function is called for a matched file exactly when the loop has
\* dealt with it, it has an identifier and the record of that identifier is usable;
\* then it is called once, otherwise not at all; and every accumulated result is
\* the result of a call for a usable record.
C10_CalledIffUsable ==
    /\ \A j \in 1..Len(response_files) :
           LET f == response_files[j]
           IN  Cardinality(CallsFor(f)) =
                   IF j < idx /\ HasMatch(f) /\ RecordUsable(f) THEN 1 ELSE 0
    /\ \A k \in 1..Len(results) :
           \E j \in 1..Len(test_calls) :
               /\ results[k] = TestReturn(test_calls[j].args, "ok")
               /\ test_calls[j].outcome = "ok"
               /\ RecordUsable(test_calls[j].file)

\* C10 witness: the loop is done, one record was dropped because its metadata is a
\* JSON array, and another record was passed to the analysis function.
C10_Witness ==
    /\ LoopDone
    /\ test_calls # <<>>
    /\ \E j \in 1..Len(printed) : printed[j].detail = <<"did not parse into a dict">>

\* C11: the metadata of every call of the analysis function has the key
\* response_num; when meta_N.json has no such key its value is the integer parsed
\* from the name of the response file and the other keys are those of the file; when
\* meta_N.json has the key the metadata is what the file holds, unchanged.
C11_ResponseNumInjectedIfAbsent ==
    \A j \in 1..Len(test_calls) :
        LET c == test_calls[j]
            n == ParseInt(MatchGroup(c.file))
            disk == files[MetaName(n)].items
        IN  /\ "response_num" \in DOMAIN c.args.metadata
            /\ IF "response_num" \in DOMAIN disk
               THEN c.args.metadata = disk
               ELSE /\ c.args.metadata["response_num"] = IntCell(n)
                    /\ DOMAIN c.args.metadata = DOMAIN disk \cup {"response_num"}
                    /\ \A k \in DOMAIN disk : c.args.metadata[k] = disk[k]

\* C11 witness: one call got a response_num that was injected from the file name,
\* another got the one stored in its metadata file, which is not that of its name.
C11_Witness ==
    /\ \E j \in 1..Len(test_calls) :
           /\ "response_num" \notin DOMAIN files[MetaName(test_calls[j].num)].items
           /\ test_calls[j].args.metadata["response_num"] = IntCell(test_calls[j].num)
    /\ \E j \in 1..Len(test_calls) :
           /\ "response_num" \in DOMAIN files[MetaName(test_calls[j].num)].items
           /\ test_calls[j].args.metadata["response_num"] # IntCell(test_calls[j].num)

IsOkCall(c) == c.outcome = "ok"

\* The calls of the analysis function that gave a result, in order.
OkCalls == SelectSeq(test_calls, IsOkCall)

\* C12 as stated: with the analysis function that forwards metadata["response_num"],
\* the response_num of every accumulated result is the number in the name of the
\* response file of the record it was computed from, whatever the store holds.
C12_ResultNumIsFileNum ==
    /\ Len(results) = Len(OkCalls)
    /\ \A k \in 1..Len(results) :
           results[k].items["response_num"] = IntCell(ParseInt(MatchGroup(OkCalls[k].file)))

\* C12, amended: the response_num of an accumulated result is the number in the
\* name of the response file when the record's meta_N.json stores no response_num,
\* and the value meta_N.json stores when it stores one.
C12_ResultNumFileOrStored ==
    /\ Len(results) = Len(OkCalls)
    /\ \A k \in 1..Len(results) :
           LET n == ParseInt(MatchGroup(OkCalls[k].file))
               disk == files[MetaName(n)].items
           IN  results[k].items["response_num"] =
                   IF "response_num" \in DOMAIN disk THEN disk["response_num"] ELSE IntCell(n)

\* C12 witness: two results, one with the number of its file name, one with the
\* different number its metadata file stores.
C12_Witness ==
    /\ Len(results) = Len(OkCalls)
    /\ \E k \in 1..Len(results) :
           results[k].items["response_num"] = IntCell(OkCalls[k].num)
    /\ \E k \in 1..Len(results) :
           /\ results[k].items["response_num"] # IntCell(OkCalls[k].num)
           /\ results[k].items["response_num"] = files[MetaName(OkCalls[k].num)].items["response_num"]

\* The number of characters of the response texts of the records 1..k of the store.
RECURSIVE StoreLength(_)
StoreLength(k) == IF k = 0 THEN 0 ELSE Len(files[ResponseName(k)].text) + StoreLength(k - 1)

\* C13: with the example analysis and summary functions, a run over the store of the
\* complete records 1..K returns {"avg_response_length": m} and nothing else, where m
\* is the sum of the lengths of the K response texts divided by K; for the records
\* 1, 2, 3 with response texts of 5, 10 and 15 characters m is 10.
C13_MeanOfResponseLengths ==
    LET k == Cardinality(DOMAIN files) \div 4
    IN  (pc = "returned" /\ folder_exists /\ ValidCallables /\ AllCallsOk /\ IsFullStore(k))
        => /\ returned.type = "dict"
           /\ DOMAIN returned.items = {"avg_response_length"}
           /\ LET m == returned.items["avg_response_length"]
              IN  /\ m.t = "float"
                  /\ m.den > 0
                  /\ m.num * k = m.den * StoreLength(k)
                  /\ (k = 3 /\ StoreLength(3) = 5 + 10 + 15) => (m.num = 10 /\ m.den = 1)

\* C13 witness: the run over the records 1, 2, 3 with response texts of 5, 10 and 15
\* characters has returned the mean 10.
C13_Witness ==
    /\ pc = "returned"
    /\ ValidCallables
    /\ files = FullStore(3)
    /\ <<Len(files[ResponseName(1)].text), Len(files[ResponseName(2)].text),
         Len(files[ResponseName(3)].text)>> = <<5, 10, 15>>
    /\ Len(summary_calls) = 1
    /\ Len(summary_calls[1].args) = 3
    /\ returned = DictValue("avg_response_length" :> FloatCell(10, 1))

\* The identifiers the matched files of the run yield.
Discovered ==
    {ExtractResponseNum(response_files[j]) :
         j \in {i \in 1..Len(response_files) : HasMatch(response_files[i])}}

\* The sibling files of an identifier that the store does not hold.
AbsentSiblings(num) == {ThinkingName(num), RawName(num), MetaName(num)} \ DOMAIN files

MissingDiagnostics(num) ==
    {j \in 1..Len(printed) : printed[j].kind = "Warning: Missing files" /\ printed[j].num = num}

\* What holds of each warning about the identifier: it lists exactly the absent
\* siblings, none of the files of the identifier was opened, no call was made for it.
SkippedUnread(num) ==
    /\ \A j \in MissingDiagnostics(num) :
           {printed[j].detail[i] : i \in 1..Len(printed[j].detail)} = AbsentSiblings(num)
    /\ \A c \in fs_touched :
           c.op = "open" =>
               c.path \notin {ResponseName(num), ThinkingName(num), RawName(num), MetaName(num)}
    /\ \A j \in 1..Len(test_calls) : test_calls[j].num # num

\* C14: when the loop is done, each discovered identifier N with a sibling file
\* (thinking_N.txt, raw_output_N.txt, meta_N.json) absent has exactly one diagnostic,
\* which lists exactly the absent files; no file of the record was read and the
\* analysis function was not called for N.
C14_OneDiagnosticListsAbsent ==
    LoopDone =>
        \A num \in Discovered :
            AbsentSiblings(num) # {} =>
                Cardinality(MissingDiagnostics(num)) = 1 /\ SkippedUnread(num)

\* C15: no two matched files of a run yield the same identifier, and the analysis
\* function is never called twice for the same identifier.
C15_IdentifierProcessedOnce ==
    /\ \A i, j \in 1..Len(response_files) :
           (i # j /\ HasMatch(response_files[i]) /\ HasMatch(response_files[j]))
               => ExtractResponseNum(response_files[i]) # ExtractResponseNum(response_files[j])
    /\ \A i, j \in 1..Len(test_calls) : i # j => test_calls[i].num # test_calls[j].num

\* C16: in every run the summary function is called at most once; when it is called
\* the loop has dealt with the last matched file, and its argument is the sequence
\* of the valid results of all calls of the analysis function, in the order of the
\* calls; after it is called, no call of either function is made.
C16_SummaryOnceOverAllResults ==
    /\ [](/\ Len(summary_calls) <= 1
          /\ summary_calls # <<>> =>
                 /\ idx = Len(response_files) + 1
                 /\ Len(test_calls) = Len(SelectSeq(response_files, Loads))
                 /\ summary_calls[1].args = OkResults(test_calls)
                 /\ summary_calls[1].args = results)
    /\ [][summary_calls # <<>> =>
              (test_calls' = test_calls /\ summary_calls' = summary_calls)]_vars

\* C16 witness: the summary function was called with two results or more, after a
\* run in which a call of the analysis function gave no result.
C16_Witness ==
    /\ Len(summary_calls) = 1
    /\ Len(summary_calls[1].args) >= 2
    /\ Len(test_calls) > Len(summary_calls[1].args)
    /\ idx = Len(response_files) + 1

\* C17: no step of a run changes the store (the files it holds and what they
\* hold, the metadata files included, and whether the folder exists), on whatever
\* path the run ends; and a second run over the same store with callables that
\* behave the same way ends as the first did: the same value returned or the same
\* exception raised, after the same calls and the same diagnostics.
C17_StoreUnchangedRunsEqual ==
    /\ [][files' = files /\ folder_exists' = folder_exists]_vars
    /\ []((earlier # NoRun /\ Finished) => RunRecord = earlier)

\* The paths a run has ended on.
EndedOn(run) ==
    CASE run.pc = "raised" -> "fatal"
      [] run.pc = "returned" /\ run.returned = Sentinel -> "sentinel"
      [] run.pc = "returned" /\ run.returned # Sentinel /\ run.printed # <<>> -> "skip"
      [] OTHER -> "normal"

\* C17 witness: a second run has ended, after a first run that injected response_num
\* into the metadata of one record and skipped another record, on a store whose
\* meta_N.json still has no response_num.
C17_Witness ==
    /\ earlier # NoRun
    /\ Finished
    /\ EndedOn(earlier) = "skip"
    /\ \E j \in 1..Len(test_calls) :
           /\ "response_num" \notin DOMAIN files[MetaName(test_calls[j].num)].items
           /\ "response_num" \in DOMAIN test_calls[j].args.metadata

\* The name is response_N.txt for a decimal number N.
IsNumberedResponse(name) ==
    /\ MatchesResponseGlob(name)
    /\ Len(name) > Len(ResponsePrefix) + Len(TxtSuffix)
    /\ \A k \in (Len(ResponsePrefix) + 1)..(Len(name) - Len(TxtSuffix)) : IsDigit(name[k])

\* That number N.
NumberOf(name) ==
    ParseInt(SubSeq(name, Len(ResponsePrefix) + 1, Len(name) - Len(TxtSuffix)))

\* The names of the store that a step writes, creates or removes.
Touched == {n \in DOMAIN files \cup DOMAIN files' :
                n \notin DOMAIN files \/ n \notin DOMAIN files' \/ files'[n] # files[n]}

\* C18: in a run of generate_responses every identifier it assigns (start_response_num
\* + i for the i-th request, i from 0) is greater than the number N of every file
\* response_N.txt the directory held when the run started; a step of the loop writes
\* no file but the four of start_response_num + i; and in any sequence of runs on a
\* directory no step changes or removes a response file that is there.
C18_NeverReusesIdentifier ==
    /\ [](gen_pc \in {"loop", "done"} =>
              /\ \A name \in DOMAIN dir_before :
                     IsNumberedResponse(name) => start_response_num > NumberOf(name)
              /\ \A j \in 1..Len(saved) :
                     /\ saved[j].num >= start_response_num
                     /\ saved[j].num < start_response_num + num_responses
                     /\ ResponseName(saved[j].num) \notin DOMAIN dir_before)
    /\ [][/\ Touched \subseteq {ResponseName(start_response_num + loop_i),
                                ThinkingName(start_response_num + loop_i),
                                RawName(start_response_num + loop_i),
                                MetaName(start_response_num + loop_i)}
          /\ \A name \in DOMAIN files :
                 MatchesResponseGlob(name) =>
                     name \in DOMAIN files' /\ files'[name] = files[name]]_vars

\* C18 witness: a later run on the directory has saved a response under a number
\* above that of a response file an earlier run wrote, which is still as it was.
C18_Witness ==
    /\ gen_pc = "done"
    /\ Len(saved) >= 1
    /\ \E name \in DOMAIN dir_before :
           /\ IsNumberedResponse(name)
           /\ dir_before[name].text \in {a.text : a \in Answers}
           /\ files[name] = dir_before[name]
           /\ saved[1].num > NumberOf(name)
           /\ NumberOf(name) > 1

\* The identifiers of the responses save_response saved in the run.
SavedNumbers == {saved[j].num : j \in 1..Len(saved)}

\* C19: when generate_responses returns, the identifiers of the responses saved in
\* the run are exactly start_response_num..end_response_num of the statistics, and
\* success_count = end_response_num - start_response_num + 1 is their number.
C19_ReportedRangeIsSavedRange ==
    gen_pc = "done" =>
        /\ SavedNumbers = stats.start_response_num..stats.end_response_num
        /\ stats.success_count = stats.end_response_num - stats.start_response_num + 1
        /\ stats.success_count = Cardinality(SavedNumbers)

\* C20: when generate_responses returns, thinking_count is the number of saved
\* responses with has_thinking, whatever verbose is, and thinking_count <=
\* success_count <= responses_requested.
C20_ThinkingCountIsSavedThinking ==
    gen_pc = "done" =>
        /\ stats.thinking_count =
               Cardinality({j \in 1..Len(saved) : saved[j].has_thinking})
        /\ stats.thinking_count <= stats.success_count
        /\ stats.success_count <= stats.responses_requested

\* The identifiers generate_responses used in the run.
AssignedNumbers == start_response_num..(start_response_num + num_responses - 1)

\* The calls of the analysis function for an identifier.
CallsOfNumber(num) == {j \in 1..Len(test_calls) : test_calls[j].num = num}

\* The four files of a saved response are in the store and meta_N.json is a JSON
\* object without response_num.
StoredAsSaved(num) ==
    /\ {ResponseName(num), ThinkingName(num), RawName(num), MetaName(num)} \subseteq DOMAIN files
    /\ files[MetaName(num)].json = "object"
    /\ "response_num" \notin DOMAIN files[MetaName(num)].items

\* The analysis function is called for the identifier once, with response_num = N
\* and the three texts as they were saved.
PassedAsSaved(num, data) ==
    /\ Cardinality(CallsOfNumber(num)) = 1
    /\ \A j \in CallsOfNumber(num) :
           /\ test_calls[j].args.metadata["response_num"] = IntCell(num)
           /\ test_calls[j].args.raw_output = data.raw_text
           /\ test_calls[j].args.thinking = data.thinking
           /\ test_calls[j].args.response = data.text

\* C21: after generate_responses, every identifier N whose save_response returned
\* True has its four files and a meta_N.json that is a JSON object without
\* response_num; once the loop of the process_outputs run that follows is done, the
\* analysis function was called for N with response_num = N and the raw, thinking
\* and cleaned texts that were saved; and it was called for no identifier of the
\* run whose generation or save failed.
C21_GenerateThenAnalyse ==
    /\ \A j \in 1..Len(saved) : StoredAsSaved(saved[j].num)
    /\ (gen_pc = "done" /\ LoopDone) =>
           /\ \A j \in 1..Len(saved) : PassedAsSaved(saved[j].num, saved[j].data)
           /\ \A num \in AssignedNumbers \ SavedNumbers : CallsOfNumber(num) = {}

====
